---- MODULE Spec2Model ----
(***************************************************************************)
(* Model of sidekick (src/src/sidekick/main.py): the REPL loop of main(),  *)
(* the plan extraction, the two confirmation gates, create_file/edit_file  *)
(* with the working-directory check, and execute_test.                     *)
(* Spec takes the model call of a turn (main.py:273-289) as one step;      *)
(* SpinSpec follows the foreground thread, the spinner thread and the      *)
(* model-call thread of that call step by step.                            *)
(*                                                                         *)
(* Strings the code lowers or compares by prefix are sequences of          *)
(* one-character strings.  A path is a sequence of components, a component *)
(* a sequence of characters.  The file system has no symbolic links.       *)
(***************************************************************************)
EXTENDS Integers, Sequences, FiniteSets, TLC

VARIABLES
    allow_files_always,   \* main.py:201
    allow_tests_always,   \* main.py:202
    api_base,             \* main.py:149
    current_model,        \* main.py:150
    system_prompt,        \* main.py:152
    pc,                   \* where main() is waiting
    response_text,        \* main.py:296, a sequence of tokens
    file_actions,         \* main.py:311
    test_actions,         \* main.py:312
    i,                    \* index of the action the running for-loop is at
    fs,                   \* files and directories the program has made
    out,                  \* what the current loop iteration has printed/read
    active,               \* main.py:103, Spinner.active of the turn's spinner
    spin_pc,              \* where the thread running Spinner.spin is
    llm_thread,           \* main.py:286, the state of the model-call thread
    response_container    \* main.py:274, the slot the model call has filled

vars == <<allow_files_always, allow_tests_always, api_base, current_model,
          system_prompt, pc, response_text, file_actions, test_actions, i,
          fs, out, active, spin_pc, llm_thread, response_container>>

\* the state of the three threads of main.py:285-289
threads == <<active, spin_pc, llm_thread, response_container>>

-----------------------------------------------------------------------------
(* Bounds *)

\* longest "actions" list of a plan
MaxPlan == 2

\* most frames the spinner thread prints in one turn
MaxFrames == 2

-----------------------------------------------------------------------------
(* Strings: str.lower()                                                    *)

UpperChars == <<"A", "L", "W", "Y", "S", "E", "X", "I", "T", "Q", "U", "N">>
LowerChars == <<"a", "l", "w", "y", "s", "e", "x", "i", "t", "q", "u", "n">>

LowerChar(c) ==
    IF \E k \in DOMAIN UpperChars : UpperChars[k] = c
    THEN LowerChars[CHOOSE k \in DOMAIN UpperChars : UpperChars[k] = c]
    ELSE c

LowerIdentity(s) == s

Lower(s) == [k \in DOMAIN s |-> LowerChar(s[k])]

S_y == <<"y">>
S_always == <<"a", "l", "w", "a", "y", "s">>
S_exit == <<"/", "e", "x", "i", "t">>
S_quit == <<"/", "q", "u", "i", "t">>
S_help == <<"/", "h", "e", "l", "p">>
S_system_prompt == <<"/", "s", "y", "s">>
S_llm_server == <<"/", "l", "l", "m">>
S_model == <<"/", "m", "o", "d">>

\* what the user may type at "sidekick prompt > "
UserPrompts ==
    { S_exit, <<"/", "Q", "U", "I", "T">>, S_help, S_system_prompt,
      S_llm_server, S_model, <<"h", "i">> }

\* what the user may type at a [y/N/always] prompt
Answers ==
    { S_y, <<"A", "l", "w", "a", "y", "s">>, <<"n">>, <<"y", "e", "s">> }

-----------------------------------------------------------------------------
(* Paths: Path(path).resolve() and the startswith check of create_file     *)

N_w == <<"w">>
N_p == <<"p">>
N_p2 == <<"p", "2">>
N_a == <<"a">>
N_x == <<"x">>
Dot == <<".">>
DotDot == <<".", ".">>

\* Path.cwd().resolve(): /w/p
Cwd == <<N_w, N_p>>

RECURSIVE Normalize(_, _)
Normalize(base, segs) ==
    IF segs = <<>> THEN base
    ELSE LET s == Head(segs)
             b == IF s = Dot THEN base
                  ELSE IF s = DotDot
                       THEN (IF base = <<>> THEN base
                             ELSE SubSeq(base, 1, Len(base) - 1))
                       ELSE Append(base, s)
         IN  Normalize(b, Tail(segs))

Resolve(p) == Normalize(IF p.abs THEN <<>> ELSE Cwd, p.segs)

RECURSIVE Str(_)
Str(path) ==
    IF path = <<>> THEN <<"/">>
    ELSE IF Len(path) = 1 THEN <<"/">> \o path[1]
    ELSE Str(SubSeq(path, 1, Len(path) - 1)) \o <<"/">> \o path[Len(path)]

StartsWith(s, t) == Len(t) <= Len(s) /\ SubSeq(s, 1, Len(t)) = t

\* a component-wise containment test, what a correct check would compute
IsUnder(path, dir) == Len(dir) <= Len(path) /\ SubSeq(path, 1, Len(dir)) = dir

AdmitsByComponents(safe_path) == IsUnder(safe_path, Cwd)

\* main.py:51 (the condition under the "not")
Admits(safe_path) == StartsWith(Str(safe_path), Str(Cwd))

P_a == [abs |-> FALSE, segs |-> <<Dot, N_a>>]
P_sibling == [abs |-> FALSE, segs |-> <<DotDot, N_p2, N_x>>]
P_up == [abs |-> FALSE, segs |-> <<DotDot, N_x>>]
P_abs == [abs |-> TRUE, segs |-> <<N_x>>]

-----------------------------------------------------------------------------
(* Output events *)

Ev(e, a, r) == [ev |-> e, arg |-> a, res |-> r]

Has(o, e) == \E k \in DOMAIN o : o[k].ev = e

Count(o, e) == Cardinality({k \in DOMAIN o : o[k].ev = e})

Only(o, e) == SelectSeq(o, LAMBDA x : x.ev = e)

-----------------------------------------------------------------------------
(* Model replies: text chunks and fence markers                            *)

\* entries of the "actions" list of a plan
E_create == [command |-> "create_file", path |-> P_a, content |-> "c1"]
E_edit == [command |-> "edit_file", path |-> P_a, content |-> "c2"]
E_sibling == [command |-> "create_file", path |-> P_sibling, content |-> "c1"]
E_up == [command |-> "create_file", path |-> P_up, content |-> "c1"]
E_nocontent == [command |-> "create_file", path |-> P_abs]
E_nopath == [command |-> "edit_file", content |-> "c1"]
E_test1 == [command |-> "test", test_command |-> "t1"]
E_test2 == [command |-> "test", test_command |-> "t2"]
E_notest == [command |-> "test"]
E_other == [command |-> "rm"]

Entries ==
    { E_create, E_edit, E_sibling, E_up, E_nocontent, E_nopath,
      E_test1, E_test2, E_notest, E_other }

Plans == UNION { [1..n -> Entries] : n \in 0..MaxPlan }

\* what json.loads makes of a chunk of text
D_bad == [j |-> "bad"]
D_list == [j |-> "list"]
D_empty == [j |-> "obj"]
D_plan(actions) == [j |-> "obj", actions |-> actions]

FenceJson == [k |-> "fj", doc |-> D_bad]
Fence == [k |-> "f", doc |-> D_bad]
Text(d) == [k |-> "txt", doc |-> d]

Replies ==
    { <<FenceJson, Text(D_plan(p)), Fence>> : p \in Plans }
    \cup
    { <<Text(D_bad)>>,
      <<Fence, Text(D_plan(<<E_create, E_test1>>)), Fence>>,
      <<FenceJson, Text(D_bad), Fence>>,
      <<FenceJson, Text(D_list), Fence>>,
      <<FenceJson, Text(D_empty), Fence>>,
      <<FenceJson, Text(D_plan(<<E_test1>>))>>,
      <<Text(D_bad), FenceJson, Text(D_plan(<<E_create>>)), Fence,
        Text(D_bad), FenceJson, Text(D_plan(<<E_test2>>)), Fence>>,
      <<FenceJson, Text(D_plan(<<E_create>>)), Fence,
        FenceJson, Text(D_plan(<<E_sibling>>)), Fence>> }

Min(S) == CHOOSE x \in S : \A y \in S : x <= y

AnyFence(text) == \E n \in DOMAIN text : text[n].k \in {"fj", "f"}

\* main.py:298: "```json" in response_text
HasJsonFence(text) == \E n \in DOMAIN text : text[n].k = "fj"

Max(S) == CHOOSE x \in S : \A y \in S : x >= y

\* the extraction that would take the last json-tagged block
ExtractLast(text) ==
    IF ~(\E n \in DOMAIN text : text[n].k = "fj")
    THEN [err |-> TRUE, body |-> <<>>]
    ELSE LET f == Max({n \in DOMAIN text : text[n].k = "fj"})
             rest == SubSeq(text, f + 1, Len(text))
             stops == {n \in DOMAIN rest : rest[n].k \in {"fj", "f"}}
             m == IF stops = {} THEN Len(rest) ELSE Min(stops) - 1
         IN  [err |-> FALSE, body |-> SubSeq(rest, 1, m)]

\* main.py:303: response_text.split("```json")[1].split("```")[0]
Extract(text) ==
    IF ~(\E n \in DOMAIN text : text[n].k = "fj")
    THEN [err |-> TRUE, body |-> <<>>]
    ELSE LET f == Min({n \in DOMAIN text : text[n].k = "fj"})
             rest == SubSeq(text, f + 1, Len(text))
             stops == {n \in DOMAIN rest : rest[n].k \in {"fj", "f"}}
             m == IF stops = {} THEN Len(rest) ELSE Min(stops) - 1
         IN  [err |-> FALSE, body |-> SubSeq(rest, 1, m)]

\* main.py:304: json.loads; D_bad stands for JSONDecodeError
JsonLoads(body) ==
    IF Len(body) = 1 /\ body[1].doc.j \in {"list", "obj"}
    THEN body[1].doc
    ELSE D_bad

\* main.py:310: plan.get("actions", []) of a dict
ActionsOf(plan) == IF "actions" \in DOMAIN plan THEN plan.actions ELSE <<>>

IsFileAction(a) ==
    "command" \in DOMAIN a /\ a.command \in {"create_file", "edit_file"}

IsTestAction(a) == "command" \in DOMAIN a /\ a.command = "test"

Reverse(s) == [n \in DOMAIN s |-> s[Len(s) + 1 - n]]

FileActionsReversed(actions) == Reverse(SelectSeq(actions, IsFileAction))

\* main.py:311
FileActionsOf(actions) == SelectSeq(actions, IsFileAction)

\* main.py:312
TestActionsOf(actions) == SelectSeq(actions, IsTestAction)

\* how many leading entries have the key: the for-loop that prints the list
\* stops with KeyError at the first entry without it
Renderable(acts, key) ==
    LET bad == {n \in DOMAIN acts : key \notin DOMAIN acts[n]}
    IN  IF bad = {} THEN Len(acts) ELSE Min(bad) - 1

-----------------------------------------------------------------------------
(* The confirmation gates                                                  *)

Pos(p, o, n) == [pc |-> p, out |-> o, i |-> n]

\* main.py:360-361: the catch-all handler, then the next loop iteration
Unexpected(o, what) == Pos("loop", Append(o, Ev("unexpected", what, "")), 0)

AlwaysPrompt(allow) == TRUE

NeverPrompt(allow) == FALSE

\* main.py:315, main.py:338
NeedsPrompt(allow) == ~allow

AuthorizedUnlessNo(confirm) == confirm # <<"n">>

\* main.py:325, main.py:348
Authorized(confirm) == confirm \in {S_y, S_always}

\* a flag that any accepting answer would set
AllowAlwaysOnYes(allow, confirm) ==
    IF confirm \in {S_y, S_always} THEN TRUE ELSE allow

\* main.py:323-324, main.py:346-347
AllowAlways(allow, confirm) == IF confirm = S_always THEN TRUE ELSE allow

\* main.py:337-355 up to the point where it waits or runs the first test
TestGate(ta, o, allowT) ==
    IF ta = <<>> THEN Pos("loop", o, 0)
    ELSE IF NeedsPrompt(allowT)
         THEN LET n == Renderable(ta, "test_command")
                  o1 == Append(o, Ev("list_tests", n, ""))
              IN  IF n = Len(ta) THEN Pos("tests_confirm", o1, 0)
                  ELSE Unexpected(o1, "KeyError")
         ELSE Pos("tests_run", o, 1)

\* main.py:314-335 up to the point where it waits or runs the first action
FileGate(fa, ta, o, allowF, allowT) ==
    IF fa = <<>> THEN TestGate(ta, o, allowT)
    ELSE IF NeedsPrompt(allowF)
         THEN LET n == Renderable(fa, "path")
                  o1 == Append(o, Ev("list_files", n, ""))
              IN  IF n = Len(fa) THEN Pos("files_confirm", o1, 0)
                  ELSE Unexpected(o1, "KeyError")
         ELSE Pos("files_run", o, 1)

FileDeclineFallsThrough(ta, o, allowT) ==
    TestGate(ta, Append(o, Ev("aborted", "", "")), allowT)

\* main.py:329-331
FileDecline(ta, o, allowT) == Pos("loop", Append(o, Ev("aborted", "", "")), 0)

\* main.py:351-352 and the end of the loop body
TestDecline(o) == Pos("loop", Append(o, Ev("skipped", "", "")), 0)

-----------------------------------------------------------------------------
(* create_file, edit_file, execute_test                                    *)

\* directories that exist before the program runs: / and the ancestors of Cwd
Preexisting(dir) == Len(dir) <= Len(Cwd) /\ SubSeq(Cwd, 1, Len(dir)) = dir

Prefixes(path) == { SubSeq(path, 1, n) : n \in 0..Len(path) }

IsFile(f, path) == \E r \in f.files : r.path = path

IsDir(f, path) == Preexisting(path) \/ path \in f.dirs

\* what the operating system may answer to mkdir and open
IOOutcomes == {"ok", "mkdir_error", "open_error"}

\* what becomes of a command given to subprocess.run with shell=True and
\* timeout=30 (main.py:73-80): the shell runs it and it exits with 0 or with
\* another status, the shell does not find the program, the run exceeds the
\* time limit, or the shell itself cannot be started (OSError)
Runs == {"exit_0", "exit_nonzero", "not_found", "timeout", "oserror"}

\* the exit status of the shell; it exits with 127 when it does not find the
\* program
ReturnCode(run) ==
    CASE run = "exit_0" -> 0
      [] run = "exit_nonzero" -> 1
      [] run = "not_found" -> 127

\* main.py:77: capture_output=True; the streams that hold captured output,
\* also the partial output subprocess.TimeoutExpired carries
Captured(run) == IF run = "oserror" THEN {} ELSE {"stdout", "stderr"}

\* main.py:69-96: the report of a run; shown are the captured streams printed
execute_test(run) ==
    IF run = "oserror"
    THEN [outcome |-> "error", shown |-> {}]
    ELSE IF run = "timeout"
    THEN [outcome |-> "timeout", shown |-> {}]
    ELSE IF ReturnCode(run) # 0
    THEN [outcome |-> "failure", code |-> ReturnCode(run),
          shown |-> {"stdout", "stderr"}]
    ELSE [outcome |-> "success", shown |-> {"stdout"}]

\* main.py:56: safe_path.parent.mkdir(parents=True, exist_ok=True)
Mkdir(f, parent) ==
    [f EXCEPT !.dirs = @ \cup { d \in Prefixes(parent) : ~Preexisting(d) }]

\* a write that keeps what the file held before
WriteFileKeepsOld(f, path, content) ==
    [f EXCEPT !.files = @ \cup { [path |-> path, content |-> content] }]

\* main.py:57-58: open(safe_path, "w") and f.write(content)
WriteFile(f, path, content) ==
    [f EXCEPT !.files = { r \in @ : r.path # path }
                        \cup { [path |-> path, content |-> content] }]

\* main.py:48-61; io is the operating system's answer
create_file(f, path, content, io) ==
    LET safe_path == Resolve(path)
        parent == IF safe_path = <<>> THEN safe_path
                  ELSE SubSeq(safe_path, 1, Len(safe_path) - 1)
    IN  IF ~Admits(safe_path) THEN [fs |-> f, res |-> "security"]
        ELSE IF io = "mkdir_error" \/ (\E d \in Prefixes(parent) : IsFile(f, d))
             THEN [fs |-> f, res |-> "error"]
        ELSE IF io = "open_error" \/ IsDir(Mkdir(f, parent), safe_path)
             THEN [fs |-> Mkdir(f, parent), res |-> "error"]
        ELSE [fs |-> WriteFile(Mkdir(f, parent), safe_path, content),
              res |-> "created"]

-----------------------------------------------------------------------------
(* main(): the REPL loop                                                   *)

Init ==
    /\ allow_files_always = FALSE
    /\ allow_tests_always = FALSE
    /\ api_base = "url0"
    /\ current_model = "m0"
    /\ system_prompt = "sp0"
    /\ pc = "prompt"
    /\ response_text = <<>>
    /\ file_actions = <<>>
    /\ test_actions = <<>>
    /\ i = 0
    /\ fs = [files |-> {}, dirs |-> {}]
    /\ out = <<>>
    /\ active = FALSE
    /\ spin_pc = "none"
    /\ llm_thread = "none"
    /\ response_container = "none"

Go(p) == pc' = p.pc /\ out' = p.out /\ i' = p.i

\* the locals of a finished loop iteration are dead
Forget ==
    /\ response_text' = <<>>
    /\ file_actions' = <<>>
    /\ test_actions' = <<>>

\* main.py:204-207: the end of the loop body, or a "continue", leads back to
\* the prompt
Loop ==
    /\ pc = "loop"
    /\ Go(Pos("prompt", <<>>, 0))
    /\ Forget
    /\ UNCHANGED threads
    /\ UNCHANGED <<allow_files_always, allow_tests_always, api_base,
                   current_model, system_prompt, fs>>

Commands == {S_exit, S_quit, S_help, S_system_prompt, S_llm_server, S_model}

\* main.py:209-210
Quit ==
    /\ pc = "prompt"
    /\ \E u \in UserPrompts : Lower(u) \in {S_exit, S_quit}
    /\ Go(Pos("exited", <<>>, 0))
    /\ UNCHANGED threads
    /\ UNCHANGED <<allow_files_always, allow_tests_always, api_base,
                   current_model, system_prompt, response_text, file_actions,
                   test_actions, fs>>

\* main.py:212-220
Help ==
    /\ pc = "prompt"
    /\ \E u \in UserPrompts : Lower(u) = S_help
    /\ Go(Pos("loop", <<Ev("help", "", "")>>, 0))
    /\ UNCHANGED threads
    /\ UNCHANGED <<allow_files_always, allow_tests_always, api_base,
                   current_model, system_prompt, response_text, file_actions,
                   test_actions, fs>>

\* main.py:222-235
SystemPrompt ==
    /\ pc = "prompt"
    /\ \E u \in UserPrompts : Lower(u) = S_system_prompt
    /\ \E new \in {"", "sp0"} :
          IF new # ""
          THEN /\ system_prompt' = new
               /\ Go(Pos("loop", <<Ev("updated", "system_prompt", "")>>, 0))
          ELSE /\ system_prompt' = system_prompt
               /\ Go(Pos("loop", <<Ev("canceled", "system_prompt", "")>>, 0))
    /\ UNCHANGED threads
    /\ UNCHANGED <<allow_files_always, allow_tests_always, api_base,
                   current_model, response_text, file_actions, test_actions,
                   fs>>

\* main.py:237-249
LlmServer ==
    /\ pc = "prompt"
    /\ \E u \in UserPrompts : Lower(u) = S_llm_server
    /\ \E new \in {"None", "", "url0"} :
          IF new \notin {"None", ""}
          THEN /\ api_base' = new
               /\ Go(Pos("loop", <<Ev("updated", "api_base", "")>>, 0))
          ELSE /\ api_base' = api_base
               /\ Go(Pos("loop", <<Ev("canceled", "api_base", "")>>, 0))
    /\ UNCHANGED threads
    /\ UNCHANGED <<allow_files_always, allow_tests_always, current_model,
                   system_prompt, response_text, file_actions, test_actions,
                   fs>>

\* main.py:251-271 with get_model_choices, main.py:127-136
Model ==
    /\ pc = "prompt"
    /\ \E u \in UserPrompts : Lower(u) = S_model
    /\ \E models \in {<<>>, <<"m0">>}, isnumber \in BOOLEAN, typed \in 0..2 :
          LET choice == typed - 1
          IN  IF models = <<>>
              THEN /\ current_model' = current_model
                   /\ Go(Pos("loop", <<Ev("nomodels", "", "")>>, 0))
              ELSE IF ~isnumber
              THEN /\ current_model' = current_model
                   /\ Go(Pos("loop", <<Ev("invalid", "input", "")>>, 0))
              ELSE IF 0 <= choice /\ choice < Len(models)
              THEN /\ current_model' = models[choice + 1]
                   /\ Go(Pos("loop", <<Ev("updated", "model", "")>>, 0))
              ELSE /\ current_model' = current_model
                   /\ Go(Pos("loop", <<Ev("invalid", "selection", "")>>, 0))
    /\ UNCHANGED threads
    /\ UNCHANGED <<allow_files_always, allow_tests_always, api_base,
                   system_prompt, response_text, file_actions, test_actions,
                   fs>>

\* main.py:273-288: any other prompt goes to the model
Ask ==
    /\ pc = "prompt"
    /\ \E u \in UserPrompts : Lower(u) \notin Commands
    /\ Go(Pos("llm", <<>>, 0))
    /\ UNCHANGED threads
    /\ UNCHANGED <<allow_files_always, allow_tests_always, api_base,
                   current_model, system_prompt, response_text, file_actions,
                   test_actions, fs>>

\* main.py:291-293
LLMError ==
    /\ pc = "llm"
    /\ Go(Pos("loop", <<Ev("llm_error", "", "")>>, 0))
    /\ UNCHANGED threads
    /\ UNCHANGED <<allow_files_always, allow_tests_always, api_base,
                   current_model, system_prompt, response_text, file_actions,
                   test_actions, fs>>

\* main.py:298-300
NoPlan(text) == Pos("loop", <<Ev("say", text, "")>>, 0)

\* main.py:305-308
ParseError(text) == Pos("loop", <<Ev("parse_error", text, "")>>, 0)

\* main.py:295-319 and 337-342: from the reply to the first wait
LLMResponse ==
    /\ pc = "llm"
    /\ \E text \in Replies :
          /\ response_text' = text
          /\ IF ~HasJsonFence(text)
             THEN /\ Go(NoPlan(text))
                  /\ UNCHANGED <<file_actions, test_actions>>
             ELSE LET ex == Extract(text)
                      plan == JsonLoads(ex.body)
                  IN  IF ex.err \/ plan = D_bad
                      THEN /\ Go(ParseError(text))
                           /\ UNCHANGED <<file_actions, test_actions>>
                      ELSE IF plan.j # "obj"
                      THEN /\ Go(Unexpected(<<>>, "AttributeError"))
                           /\ UNCHANGED <<file_actions, test_actions>>
                      ELSE /\ file_actions' = FileActionsOf(ActionsOf(plan))
                           /\ test_actions' = TestActionsOf(ActionsOf(plan))
                           /\ Go(FileGate(file_actions', test_actions', <<>>,
                                          allow_files_always,
                                          allow_tests_always))
    /\ UNCHANGED threads
    /\ UNCHANGED <<allow_files_always, allow_tests_always, api_base,
                   current_model, system_prompt, fs>>

\* main.py:321-331
FilesConfirm ==
    /\ pc = "files_confirm"
    /\ \E raw \in Answers :
          LET confirm == Lower(raw)
              o1 == Append(out, Ev("input_files", raw, ""))
          IN  /\ allow_files_always' = AllowAlways(allow_files_always, confirm)
              /\ IF Authorized(confirm)
                 THEN Go(Pos("files_run", o1, 1))
                 ELSE Go(FileDecline(test_actions, o1, allow_tests_always))
    /\ UNCHANGED threads
    /\ UNCHANGED <<allow_tests_always, api_base, current_model, system_prompt,
                   response_text, file_actions, test_actions, fs>>

\* main.py:326-328 and 333-335: one iteration of the for-loop
FilesRun ==
    /\ pc = "files_run"
    /\ LET action == file_actions[i]
       IN  IF "path" \notin DOMAIN action \/ "content" \notin DOMAIN action
           THEN /\ Go(Unexpected(out, "KeyError"))
                /\ fs' = fs
           ELSE \E io \in IOOutcomes :
                  LET r == create_file(fs, action.path, action.content, io)
                      o0 == IF action.command = "edit_file"
                            THEN Append(out, Ev("note", "", ""))
                            ELSE out
                      o1 == Append(o0, Ev("file", action, r.res))
                  IN  /\ fs' = r.fs
                      /\ IF i < Len(file_actions)
                         THEN Go(Pos("files_run", o1, i + 1))
                         ELSE Go(TestGate(test_actions, o1, allow_tests_always))
    /\ UNCHANGED threads
    /\ UNCHANGED <<allow_files_always, allow_tests_always, api_base,
                   current_model, system_prompt, response_text, file_actions,
                   test_actions>>

\* main.py:344-352
TestsConfirm ==
    /\ pc = "tests_confirm"
    /\ \E raw \in Answers :
          LET confirm_test == Lower(raw)
              o1 == Append(out, Ev("input_tests", raw, ""))
          IN  /\ allow_tests_always' =
                    AllowAlways(allow_tests_always, confirm_test)
              /\ IF Authorized(confirm_test)
                 THEN Go(Pos("tests_run", o1, 1))
                 ELSE Go(TestDecline(o1))
    /\ UNCHANGED threads
    /\ UNCHANGED <<allow_files_always, api_base, current_model, system_prompt,
                   response_text, file_actions, test_actions, fs>>

\* main.py:349-350 and 354-355 with execute_test, main.py:69-96
TestsRun ==
    /\ pc = "tests_run"
    /\ LET action == test_actions[i]
       IN  IF "test_command" \notin DOMAIN action
           THEN Go(Unexpected(out, "KeyError"))
           ELSE \E run \in Runs :
                  LET o1 == Append(out, Ev("test", action.test_command,
                                           [run |-> run,
                                            report |-> execute_test(run)]))
                  IN  IF i < Len(test_actions)
                      THEN Go(Pos("tests_run", o1, i + 1))
                      ELSE Go(Pos("loop", o1, 0))
    /\ UNCHANGED threads
    /\ UNCHANGED <<allow_files_always, allow_tests_always, api_base,
                   current_model, system_prompt, response_text, file_actions,
                   test_actions, fs>>

\* input() or prompt() at end of input: EOFError, main.py:360-361
InputEOF ==
    /\ pc \in {"prompt", "files_confirm", "tests_confirm"}
    /\ Go(Unexpected(out, "EOFError"))
    /\ UNCHANGED threads
    /\ UNCHANGED <<allow_files_always, allow_tests_always, api_base,
                   current_model, system_prompt, response_text, file_actions,
                   test_actions, fs>>

\* main.py:357-359: the loop ends, the locals of the iteration are dead
Interrupt ==
    /\ pc # "exited"
    /\ Go(Pos("exited", <<Ev("bye", "", "")>>, 0))
    /\ Forget
    /\ UNCHANGED threads
    /\ UNCHANGED <<allow_files_always, allow_tests_always, api_base,
                   current_model, system_prompt, fs>>

Next ==
    \/ Loop
    \/ Quit
    \/ Help
    \/ SystemPrompt
    \/ LlmServer
    \/ Model
    \/ Ask
    \/ LLMError
    \/ LLMResponse
    \/ FilesConfirm
    \/ FilesRun
    \/ TestsConfirm
    \/ TestsRun
    \/ InputEOF
    \/ Interrupt

Spec == Init /\ [][Next]_vars

-----------------------------------------------------------------------------
(* The model call of a turn, thread by thread: main.py:273-300 and the     *)
(* class Spinner, main.py:99-125.  The reply is taken as plain text; what  *)
(* main() does with a plan is in Spec.                                     *)

\* what the sequential part of main() holds, untouched by the threads
session == <<allow_files_always, allow_tests_always, api_base, current_model,
             system_prompt, response_text, file_actions, test_actions, i, fs>>

\* main.py:207, 273-285 and Spinner.start, main.py:116-119: a prompt that is
\* no command, a fresh spinner and container, the spinner thread started.
\* The thread of the turn before has ended by the time a prompt is typed.
SpinnerStart ==
    /\ pc = "prompt"
    /\ \E u \in UserPrompts : Lower(u) \notin Commands
    /\ spin_pc \in {"none", "done"}
    /\ active' = TRUE
    /\ spin_pc' = "test"
    /\ llm_thread' = "none"
    /\ response_container' = "none"
    /\ pc' = "start_llm"
    /\ UNCHANGED <<session, out>>

\* main.py:286-287: llm_thread.start()
LlmThreadStart ==
    /\ pc = "start_llm"
    /\ llm_thread' = "running"
    /\ pc' = "join"
    /\ UNCHANGED <<session, out, active, spin_pc, response_container>>

\* main.py:276-283: the model-call thread fills the container and ends
get_llm_response ==
    /\ llm_thread = "running"
    /\ \E r \in {"response", "error"} : response_container' = r
    /\ llm_thread' = "done"
    /\ UNCHANGED <<session, pc, out, active, spin_pc>>

\* main.py:288: llm_thread.join() returns when the thread has ended
LlmJoin ==
    /\ pc = "join"
    /\ llm_thread = "done"
    /\ pc' = "stop"
    /\ UNCHANGED <<session, out, threads>>

\* main.py:289 and 121-123: spinner.stop() clears the flag
SpinnerStop ==
    /\ pc = "stop"
    /\ active
    /\ active' = FALSE
    /\ pc' = "stop_join"
    /\ UNCHANGED <<session, out, spin_pc, llm_thread, response_container>>

\* main.py:124-125: self._thread.join(timeout=0.2) returns when the thread
\* has ended or when the 0.2 seconds are over, whichever comes first
SpinnerJoin ==
    /\ pc = "stop_join"
    /\ \E timed_out \in BOOLEAN : timed_out \/ spin_pc = "done"
    /\ pc' = "inspect"
    /\ UNCHANGED <<session, out, threads>>

\* main.py:291-300: the foreground thread inspects the container and prints
Inspect ==
    /\ pc = "inspect"
    /\ IF response_container = "error"
       THEN out' = Append(out, Ev("llm_error", "", ""))
       ELSE out' = Append(out, Ev("say", <<Text(D_bad)>>, ""))
    /\ pc' = "loop"
    /\ UNCHANGED <<session, threads>>

\* main.py:107: while self.active
SpinTest ==
    /\ spin_pc = "test"
    /\ spin_pc' = IF active THEN "print" ELSE "clear"
    /\ UNCHANGED <<session, pc, out, active, llm_thread, response_container>>

\* main.py:108-111: one frame
SpinPrint ==
    /\ spin_pc = "print"
    /\ Count(out, "frame") < MaxFrames
    /\ out' = Append(out, Ev("frame", "", ""))
    /\ spin_pc' = "sleep"
    /\ UNCHANGED <<session, pc, active, llm_thread, response_container>>

\* main.py:112: time.sleep(0.1)
SpinSleep ==
    /\ spin_pc = "sleep"
    /\ spin_pc' = "test"
    /\ UNCHANGED <<session, pc, out, active, llm_thread, response_container>>

\* main.py:113-114: the spinner line is cleared, the thread ends
SpinClear ==
    /\ spin_pc = "clear"
    /\ out' = Append(out, Ev("clear", "", ""))
    /\ spin_pc' = "done"
    /\ UNCHANGED <<session, pc, active, llm_thread, response_container>>

\* main.py:204-207: the next loop iteration
NextTurn ==
    /\ pc = "loop"
    /\ spin_pc \in {"none", "done"}
    /\ pc' = "prompt"
    /\ out' = <<>>
    /\ UNCHANGED <<session, threads>>

\* main.py:357-359: KeyboardInterrupt anywhere in the try block of the
\* foreground thread; the handler prints and leaves the loop.  The daemon
\* threads run on until the interpreter has shut down.
KeyboardInterrupt ==
    /\ pc # "exited"
    /\ out' = Append(out, Ev("bye", "", ""))
    /\ pc' = "exited"
    /\ UNCHANGED <<session, threads>>

SpinNext ==
    \/ Quit
    \/ SpinnerStart
    \/ LlmThreadStart
    \/ get_llm_response
    \/ LlmJoin
    \/ SpinnerStop
    \/ SpinnerJoin
    \/ Inspect
    \/ SpinTest
    \/ SpinPrint
    \/ SpinSleep
    \/ SpinClear
    \/ NextTurn
    \/ KeyboardInterrupt

SpinSpec == Init /\ [][SpinNext]_vars

-----------------------------------------------------------------------------
(* Vocabulary of the properties                                            *)

\* the inputs that Python's lower() turns into 'y' and into 'always'
RawYes == { S_y }
RawAlways == { S_always, <<"A", "l", "w", "a", "y", "s">> }
RawAccept == RawYes \cup RawAlways

JsonTagged(text) == \E n \in DOMAIN text : text[n].k = "fj"

\* the "actions" list of the plan the reply of this turn carries
PlanActions == ActionsOf(JsonLoads(Extract(response_text).body))

WellFormedFile(a) == "path" \in DOMAIN a /\ "content" \in DOMAIN a

WellFormedTest(a) == "test_command" \in DOMAIN a

\* the arguments of the events e of this turn, in order
Args(e) == [n \in 1..Count(out, e) |-> Only(out, e)[n].arg]

IsPrefix(s, t) == Len(s) <= Len(t) /\ s = SubSeq(t, 1, Len(s))

FilesDeclined ==
    \E n \in DOMAIN out : out[n].ev = "input_files" /\ out[n].arg \notin RawAccept

TestsDeclined ==
    \E n \in DOMAIN out : out[n].ev = "input_tests" /\ out[n].arg \notin RawAccept

-----------------------------------------------------------------------------
\* C1: create_file/edit_file touch the file system if and only if the
\* canonical path is the working directory or lies below it by components;
\* every other path is rejected and nothing outside the working directory is
\* ever created.
C1_Containment ==
    /\ \A n \in DOMAIN out :
          out[n].ev = "file" =>
             ((out[n].res # "security")
                 <=> AdmitsByComponents(Resolve(out[n].arg.path)))
    /\ \A r \in fs.files : AdmitsByComponents(r.path)
    /\ \A d \in fs.dirs : AdmitsByComponents(d)

\* C2: in a turn no action of a category runs unless its flag was already
\* true or the category's prompt was answered 'y' or 'always'; with the flag
\* false the whole list is rendered and one prompt is issued before the first
\* action; at most one prompt per category and turn.
C2_GatedExecution ==
    /\ Count(out, "input_files") <= 1
    /\ Count(out, "input_tests") <= 1
    /\ (pc = "files_confirm" =>
           /\ ~allow_files_always
           /\ ~Has(out, "input_files")
           /\ out[Len(out)].ev = "list_files"
           /\ out[Len(out)].arg = Len(file_actions))
    /\ (pc = "tests_confirm" =>
           /\ ~allow_tests_always
           /\ ~Has(out, "input_tests")
           /\ out[Len(out)].ev = "list_tests"
           /\ out[Len(out)].arg = Len(test_actions))
    /\ (pc = "files_run" \/ Has(out, "file")) =>
          \/ /\ allow_files_always
             /\ ~Has(out, "input_files")
             /\ ~Has(out, "list_files")
          \/ \E l, j \in DOMAIN out :
                /\ l < j
                /\ out[l].ev = "list_files"
                /\ out[l].arg = Len(file_actions)
                /\ out[j].ev = "input_files"
                /\ out[j].arg \in RawAccept
                /\ \A n \in DOMAIN out : out[n].ev = "file" => j < n
    /\ (pc = "tests_run" \/ Has(out, "test")) =>
          \/ /\ allow_tests_always
             /\ ~Has(out, "input_tests")
             /\ ~Has(out, "list_tests")
          \/ \E l, j \in DOMAIN out :
                /\ l < j
                /\ out[l].ev = "list_tests"
                /\ out[l].arg = Len(test_actions)
                /\ out[j].ev = "input_tests"
                /\ out[j].arg \in RawAccept
                /\ \A n \in DOMAIN out : out[n].ev = "test" => j < n

\* C2 witness: a file was written after the rendered list and a 'y'
C2_Witness ==
    /\ ~allow_files_always
    /\ Has(out, "list_files")
    /\ \E j, n \in DOMAIN out :
          /\ j < n
          /\ out[j].ev = "input_files"
          /\ out[j].arg = S_y
          /\ out[n].ev = "file"
          /\ out[n].res = "created"

C3_NoPromptOnceAllowed ==
    /\ allow_files_always => pc # "files_confirm"
    /\ allow_tests_always => pc # "tests_confirm"
    /\ (allow_files_always /\ Has(out, "input_files")) =>
          \E n \in DOMAIN out :
             out[n].ev = "input_files" /\ out[n].arg \in RawAlways
    /\ (allow_tests_always /\ Has(out, "input_tests")) =>
          \E n \in DOMAIN out :
             out[n].ev = "input_tests" /\ out[n].arg \in RawAlways
    /\ (/\ pc = "loop"
        /\ allow_files_always
        /\ ~Has(out, "input_files")
        /\ ~Has(out, "unexpected")
        /\ file_actions # <<>>) => Count(out, "file") = Len(file_actions)
    /\ (/\ pc = "loop"
        /\ allow_tests_always
        /\ ~Has(out, "input_tests")
        /\ ~Has(out, "unexpected")
        /\ ~Has(out, "aborted")
        /\ test_actions # <<>>) => Count(out, "test") = Len(test_actions)

C4_GateTransitions ==
    /\ \A n \in DOMAIN out :
          out[n].ev = "input_files" =>
             /\ allow_files_always <=> out[n].arg \in RawAlways
             /\ out[n].arg \notin RawAccept =>
                   ~Has(out, "file") /\ pc # "files_run"
             /\ out[n].arg \in RawAccept =>
                   /\ ~Has(out, "aborted")
                   /\ pc = "files_run" \/ Has(out, "file")
                         \/ Has(out, "unexpected")
    /\ \A n \in DOMAIN out :
          out[n].ev = "input_tests" =>
             /\ allow_tests_always <=> out[n].arg \in RawAlways
             /\ out[n].arg \notin RawAccept =>
                   ~Has(out, "test") /\ pc # "tests_run"
             /\ out[n].arg \in RawAccept =>
                   /\ ~Has(out, "skipped")
                   /\ pc = "tests_run" \/ Has(out, "test")
    /\ (~allow_files_always /\ (pc = "files_run" \/ Has(out, "file"))) =>
          Has(out, "input_files")
    /\ (~allow_tests_always /\ (pc = "tests_run" \/ Has(out, "test"))) =>
          Has(out, "input_tests")

\* C4 witness: 'Always' typed with a capital set the file flag and the batch
\* ran
C4_Witness ==
    /\ allow_files_always
    /\ \E n \in DOMAIN out :
          out[n].ev = "input_files" /\ out[n].arg = <<"A", "l", "w", "a", "y", "s">>
    /\ Has(out, "file")

\* C5: whatever the order of the entries in the plan, no file action runs
\* after the test prompt is shown or a test is started; the file actions run
\* in their order in the plan and so do the tests.
C5_FilesBeforeTests ==
    /\ \A j, n \in DOMAIN out :
          (j < n /\ out[j].ev \in {"list_tests", "input_tests", "test"}) =>
             out[n].ev \notin {"list_files", "input_files", "note", "file"}
    /\ Has(out, "file") =>
          IsPrefix(Args("file"), SelectSeq(PlanActions, IsFileAction))
    /\ Has(out, "test") =>
          LET planned == SelectSeq(PlanActions, IsTestAction)
              ran == Args("test")
          IN  /\ Len(ran) <= Len(planned)
              /\ \A n \in DOMAIN ran :
                    /\ WellFormedTest(planned[n])
                    /\ planned[n].test_command = ran[n]
    /\ ((Has(out, "list_tests") \/ Has(out, "test")) /\ file_actions # <<>>) =>
          Count(out, "file") = Len(file_actions)

\* C5 witness: the plan lists a test before a file, the file ran first
C5_Witness ==
    /\ response_text # <<>>
    /\ JsonTagged(response_text)
    /\ PlanActions = <<E_test1, E_create>>
    /\ \E j, n \in DOMAIN out :
          j < n /\ out[j].ev = "file" /\ out[n].ev = "test"

\* C6: after a declined file prompt the turn is over: "File changes
\* aborted." is the last thing reported, no file action ran, no test prompt
\* was shown, no test ran, and the loop goes back to the prompt.
C6_FileDeclineEndsTurn ==
    \A n \in DOMAIN out :
       (out[n].ev = "input_files" /\ out[n].arg \notin RawAccept) =>
          /\ Len(out) = n + 1
          /\ out[n + 1].ev = "aborted"
          /\ pc = "loop"
          /\ ~Has(out, "file")
          /\ ~Has(out, "list_tests")
          /\ ~Has(out, "input_tests")
          /\ ~Has(out, "test")

\* C6 witness: a plan with a file and a test, the file prompt answered 'n'
C6_Witness ==
    /\ pc = "loop"
    /\ file_actions # <<>>
    /\ test_actions # <<>>
    /\ \E n \in DOMAIN out : out[n].ev = "input_files" /\ out[n].arg = <<"n">>
    /\ Has(out, "aborted")

\* C7, as stated: a declined file prompt leaves the tests of the plan to the
\* tests gate alone, so a turn that ends after it has prompted for the tests
\* or run them.
C7_IndependentGates ==
    (pc = "loop" /\ FilesDeclined /\ test_actions # <<>>) =>
       (Has(out, "list_tests") \/ Has(out, "test"))

\* what the file system holds after the file events of this turn: the content
\* of the last successful write to each path
LastWrites ==
    { n \in DOMAIN out :
        /\ out[n].ev = "file"
        /\ out[n].res = "created"
        /\ \A m \in DOMAIN out :
              (m > n /\ out[m].ev = "file" /\ out[m].res = "created") =>
                 Resolve(out[m].arg.path) # Resolve(out[n].arg.path) }

\* C7 (amended): a declined test prompt leaves the file actions of the turn
\* applied, all of them attempted and every written file in place; a declined
\* file prompt ends the turn, the tests of the plan being neither prompted for
\* nor run, whatever the tests flag.
C7_OnlyTestDeclineIsIndependent ==
    /\ TestsDeclined =>
          /\ out[Len(out)].ev = "skipped"
          /\ pc = "loop"
          /\ ~Has(out, "test")
          /\ Count(out, "file") = Len(file_actions)
          /\ \A n \in LastWrites :
                [path |-> Resolve(out[n].arg.path),
                 content |-> out[n].arg.content] \in fs.files
    /\ FilesDeclined =>
          /\ ~Has(out, "list_tests")
          /\ ~Has(out, "input_tests")
          /\ ~Has(out, "test")

\* C7 witness: a file was written, then the test prompt was declined
C7_Witness ==
    /\ TestsDeclined
    /\ \E n \in DOMAIN out : out[n].ev = "file" /\ out[n].res = "created"
    /\ fs.files # {}

\* the test batch of the turn was authorized: by the prompt, or by the flag
\* once the file stage was through
TestsAuthorized ==
    \/ \E n \in DOMAIN out : out[n].ev = "input_tests" /\ out[n].arg \in RawAccept
    \/ /\ allow_tests_always
       /\ test_actions # <<>>
       /\ ~Has(out, "input_tests")
       /\ ~Has(out, "aborted")
       /\ Count(out, "file") = Len(file_actions)

\* C8: when the test batch is authorized, every test action of the plan runs
\* exactly once, in plan order, whatever happens to the ones before it.
C8_TestIsolation ==
    (pc = "loop" /\ TestsAuthorized) =>
       LET planned == SelectSeq(test_actions, WellFormedTest)
       IN  Args("test") = [n \in DOMAIN planned |-> planned[n].test_command]

\* the file batch of the turn was authorized: by the prompt or by the flag
FilesAuthorized ==
    \/ \E n \in DOMAIN out : out[n].ev = "input_files" /\ out[n].arg \in RawAccept
    \/ /\ allow_files_always
       /\ file_actions # <<>>
       /\ ~Has(out, "input_files")

\* C9: when the file batch is authorized, every file action of the plan is
\* attempted exactly once, in plan order, whatever happens to the ones before
\* it, and the test stage of the turn follows (with the tests flag false, the
\* tests of the plan are listed for the prompt).
C9_FileIsolation ==
    (pc = "loop" /\ FilesAuthorized) =>
       /\ Args("file") = SelectSeq(file_actions, WellFormedFile)
       /\ (SelectSeq(test_actions, WellFormedTest) # <<>>
              /\ ~allow_tests_always) => Has(out, "list_tests")

\* the state part of C10
C10_OnlySays ==
    (response_text # <<>> /\ ~JsonTagged(response_text)) =>
       /\ out = <<Ev("say", response_text, "")>>
       /\ pc = "loop"
       /\ file_actions = <<>>
       /\ test_actions = <<>>

\* C10: a reply without a json-tagged fence is shown as it is and the turn
\* ends there: nothing is written, no command is run, no prompt is issued and
\* neither flag changes.
C10_NoPlanNoEffects ==
    /\ []C10_OnlySays
    /\ [][(response_text' # response_text /\ response_text' # <<>>
              /\ ~JsonTagged(response_text')) =>
             /\ fs' = fs
             /\ allow_files_always' = allow_files_always
             /\ allow_tests_always' = allow_tests_always]_vars

\* C10 witness: a reply with a fenced block that is not tagged json was shown
C10_Witness ==
    /\ response_text # <<>>
    /\ ~JsonTagged(response_text)
    /\ \E n \in DOMAIN response_text : response_text[n].k = "f"
    /\ out = <<Ev("say", response_text, "")>>

-----------------------------------------------------------------------------
\* the value json.loads gives for the first json-tagged block of the reply
Decoded == JsonLoads(Extract(response_text).body)

\* C11: every parse defect of a reply with a json-tagged block (it does not
\* decode, it decodes to something that is no object, the object has no
\* 'actions' key) is reported with a message that carries the raw reply, and
\* the turn writes no file and runs no command.
C11_ParseDefectsReported ==
    (/\ pc = "loop"
     /\ response_text # <<>>
     /\ JsonTagged(response_text)
     /\ (Decoded.j # "obj" \/ "actions" \notin DOMAIN Decoded)) =>
       /\ \E n \in DOMAIN out :
             out[n].ev = "parse_error" /\ out[n].arg = response_text
       /\ ~Has(out, "file")
       /\ ~Has(out, "test")

Recognized(a) ==
    \/ IsFileAction(a) /\ WellFormedFile(a)
    \/ IsTestAction(a) /\ WellFormedTest(a)

\* C12: every plan entry that is not a well-formed create_file, edit_file or
\* test action is never executed, is reported with a diagnostic of its own,
\* and does not keep the well-formed actions of the plan from being gated:
\* the well-formed file actions are listed for the prompt, the well-formed
\* tests as well once the file stage is through.
C12_UnrecognizedDropped ==
    (/\ pc = "loop"
     /\ response_text # <<>>
     /\ JsonTagged(response_text)
     /\ Decoded.j = "obj") =>
       LET planned == ActionsOf(Decoded)
           dropped == SelectSeq(planned, LAMBDA a : ~Recognized(a))
           files == SelectSeq(planned, LAMBDA a : IsFileAction(a) /\ WellFormedFile(a))
       IN  /\ \A n \in DOMAIN out :
                 out[n].ev = "file" => Recognized(out[n].arg)
           /\ Count(out, "unexpected") >= Len(dropped)
           /\ (files # <<>> /\ ~allow_files_always) =>
                 \E n \in DOMAIN out :
                    out[n].ev = "list_files" /\ out[n].arg >= Len(files)


\* the messages by which the loop reports an error of the turn
ErrorReports == {"llm_error", "parse_error", "unexpected"}

\* the loop is over for one of its three reasons: /exit or /quit typed at the
\* prompt (nothing printed), or an interrupt (the shutdown message)
EndedByQuitOrInterrupt == out = <<>> \/ out = <<Ev("bye", "", "")>>

\* C13: no error inside a turn ends the process: after a model-call error, a
\* parse defect, a rejection, an I/O failure, a failing test or any other
\* exception the error is reported and the loop goes on to the next prompt;
\* the loop ends only on /exit, /quit or an interrupt.
C13_ErrorsReportedLoopContinues ==
    /\ pc = "exited" => EndedByQuitOrInterrupt
    /\ (\E n \in DOMAIN out : out[n].ev \in ErrorReports) => pc = "loop"
    /\ (/\ pc = "loop"
        /\ response_text # <<>>
        /\ JsonTagged(response_text)
        /\ (Decoded.j # "obj" \/ "actions" \notin DOMAIN Decoded)) =>
          \E n \in DOMAIN out : out[n].ev \in ErrorReports

\* the part of C13 that does not depend on what counts as reported: the loop
\* ends only by /exit, /quit or an interrupt, and the end of every turn,
\* failed or not, leads to the prompt
C13_OnlyQuitOrInterruptEnds ==
    /\ pc = "exited" => EndedByQuitOrInterrupt
    /\ (\E n \in DOMAIN out : out[n].ev \in ErrorReports) => pc = "loop"
    /\ (\E n \in DOMAIN out :
           \/ out[n].ev = "file" /\ out[n].res # "created"
           \/ out[n].ev = "test" /\ out[n].res.report.outcome # "success") =>
          pc # "exited"


\* C16: create_file and edit_file are idempotent: a second call with the same
\* path and content succeeds and leaves the file system as the first call left
\* it, the file holding exactly that content; a write replaces the whole
\* previous content of the file.
C16_Idempotent ==
    /\ \A n \in LastWrites :
          LET a == out[n].arg
              again == create_file(fs, a.path, a.content, "ok")
          IN  /\ again.res = "created"
              /\ again.fs = fs
              /\ { r \in fs.files : r.path = Resolve(a.path) } =
                    { [path |-> Resolve(a.path), content |-> a.content] }
    /\ \A r, q \in fs.files : r.path = q.path => r = q

\* C16 witness: the same write was made twice in a turn, both times with
\* success, and the file holds the content written
C16_Witness ==
    /\ \E n, m \in DOMAIN out :
          /\ n < m
          /\ out[n].ev = "file" /\ out[m].ev = "file"
          /\ out[n].res = "created" /\ out[m].res = "created"
          /\ out[n].arg = out[m].arg
    /\ [path |-> Resolve(P_a), content |-> "c1"] \in fs.files


\* the position of the first json-tagged opening marker of a reply
FirstOpen(text) ==
    CHOOSE n \in DOMAIN text :
       text[n].k = "fj" /\ \A m \in 1..(n - 1) : text[m].k # "fj"

\* whether a fence closes the first json-tagged block
Closed(text) ==
    \E n \in DOMAIN text : n > FirstOpen(text) /\ text[n].k \in {"f", "fj"}

\* the position of the next fence after the first json-tagged opening marker
FirstClose(text) ==
    CHOOSE n \in DOMAIN text :
       /\ n > FirstOpen(text)
       /\ text[n].k \in {"f", "fj"}
       /\ \A m \in (FirstOpen(text) + 1)..(n - 1) : text[m].k = "txt"

\* the actions a reply plans, read from its first json-tagged block only
FirstBlockActions(text) ==
    LET a == FirstOpen(text)
        b == FirstClose(text)
    IN  IF b = a + 2 /\ "actions" \in DOMAIN text[a + 1].doc
        THEN text[a + 1].doc.actions
        ELSE <<>>

\* the two-block reply whose blocks plan different writes
TwoPlans ==
    <<FenceJson, Text(D_plan(<<E_create>>)), Fence,
      FenceJson, Text(D_plan(<<E_sibling>>)), Fence>>

\* the replies of more than one block
ManyBlocks ==
    { TwoPlans,
      <<Text(D_bad), FenceJson, Text(D_plan(<<E_create>>)), Fence,
        Text(D_bad), FenceJson, Text(D_plan(<<E_test2>>)), Fence>> }

\* C19: when a reply holds several fenced blocks, the plan is decoded from
\* exactly the text between the first json-tagged opening marker and the
\* next closing fence; what follows that fence has no influence on the
\* actions listed, prompted for and run.
C19_FirstBlockOnly ==
    (/\ pc \in {"files_confirm", "files_run", "tests_confirm", "tests_run",
               "loop"}
     /\ response_text # <<>>
     /\ JsonTagged(response_text)
     /\ Closed(response_text)) =>
       LET first == FirstBlockActions(response_text)
           close == FirstClose(response_text)
       IN  /\ file_actions = SelectSeq(first, IsFileAction)
           /\ test_actions = SelectSeq(first, IsTestAction)
           /\ \A n \in DOMAIN out :
                 /\ out[n].ev = "file" =>
                       \E k \in DOMAIN first : first[k] = out[n].arg
                 /\ out[n].ev = "test" =>
                       \E k \in DOMAIN first :
                          /\ IsTestAction(first[k])
                          /\ WellFormedTest(first[k])
                          /\ first[k].test_command = out[n].arg
           /\ \A r \in ManyBlocks :
                 (/\ FirstClose(r) = close
                  /\ SubSeq(r, 1, close) = SubSeq(response_text, 1, close)) =>
                    /\ FileActionsOf(ActionsOf(JsonLoads(Extract(r).body)))
                          = file_actions
                    /\ TestActionsOf(ActionsOf(JsonLoads(Extract(r).body)))
                          = test_actions

\* C19 witness: the turn of a two-block reply wrote the file of its first
\* block and nothing else
C19_Witness ==
    /\ response_text = TwoPlans
    /\ pc = "loop"
    /\ Args("file") = <<E_create>>
    /\ out[Len(out)].res = "created"


\* the last event of a log is the answer raw to the prompt e
Answered(o, e, raw) ==
    /\ o # <<>>
    /\ o[Len(o)].ev = e
    /\ o[Len(o)].arg = raw

\* C20: the two session flags are independent: allow_files_always changes
\* only when the file prompt is answered 'always', allow_tests_always only
\* when the test prompt is answered 'always'; every other step leaves both
\* unchanged.
C20_FlagFrame ==
    [][/\ allow_files_always' # allow_files_always =>
             /\ pc = "files_confirm"
             /\ \E raw \in RawAlways : Answered(out', "input_files", raw)
             /\ allow_tests_always' = allow_tests_always
       /\ allow_tests_always' # allow_tests_always =>
             /\ pc = "tests_confirm"
             /\ \E raw \in RawAlways : Answered(out', "input_tests", raw)
             /\ allow_files_always' = allow_files_always
       /\ (pc = "files_confirm" /\ pc' = "files_run"
             /\ out'[Len(out')].arg \notin RawAlways) =>
             allow_files_always' = allow_files_always
       /\ (pc = "tests_confirm" /\ pc' = "tests_run"
             /\ out'[Len(out')].arg \notin RawAlways) =>
             allow_tests_always' = allow_tests_always]_vars

\* C20 witness: the file prompt was answered 'always' and the test prompt of
\* the same turn 'y': the files flag is set, the tests flag is not, and the
\* tests ran
C20_Witness ==
    /\ allow_files_always
    /\ ~allow_tests_always
    /\ \E n \in DOMAIN out : out[n].ev = "input_files" /\ out[n].arg \in RawAlways
    /\ \E n \in DOMAIN out : out[n].ev = "input_tests" /\ out[n].arg = S_y
    /\ Has(out, "test")


\* the runs in which no process for the command came to exist
NotSpawned == {"not_found", "oserror"}

\* C17: execute_test reports exactly one of four outcomes: exit status 0 is
\* success; another exit status is failure with the real exit code; a run
\* over 30 seconds is timeout, without exit code; a command that could not be
\* spawned (bad shell, missing binary) is a spawn error, without exit code and
\* never an ordinary failure.
C17_FourOutcomes ==
    \A n \in DOMAIN out :
       out[n].ev = "test" =>
          LET run == out[n].res.run
              report == out[n].res.report
          IN  /\ report.outcome \in {"success", "failure", "timeout", "error"}
              /\ run = "exit_0" => report.outcome = "success"
              /\ run = "exit_nonzero" =>
                    /\ report.outcome = "failure"
                    /\ "code" \in DOMAIN report
                    /\ report.code = ReturnCode(run)
              /\ run = "timeout" => report.outcome = "timeout"
              /\ run \in NotSpawned => report.outcome = "error"
              /\ "code" \notin DOMAIN report
                    <=> report.outcome \in {"timeout", "error"}

\* C18: for every test command that is run the captured output is displayed
\* on every outcome, and the captured stderr is displayed on failure.
C18_OutputDisplayed ==
    \A n \in DOMAIN out :
       out[n].ev = "test" =>
          LET run == out[n].res.run
              report == out[n].res.report
          IN  /\ "stdout" \in Captured(run) => "stdout" \in report.shown
              /\ report.outcome = "failure" => "stderr" \in report.shown


\* what the spinner thread writes to the terminal
SpinnerOutput == {"frame", "clear"}

\* C14: the spinner thread has finished, and writes nothing more to the
\* terminal, before the foreground thread inspects the result of the model
\* call and prints anything for the turn, under every interleaving of the
\* three threads.
C14_SpinnerFinishedBeforePrint ==
    /\ pc = "inspect" => spin_pc = "done"
    /\ \A n, m \in DOMAIN out :
          (n < m /\ out[n].ev \in {"say", "llm_error"}) =>
             out[m].ev \notin SpinnerOutput

\* C15: an interrupt at any point of a turn, also while the foreground thread
\* waits for the model call with the spinner running, stops the indicator
\* (the active flag is cleared, nothing is printed after the shutdown
\* message), prints the shutdown message and ends the loop.
C15_InterruptStopsSpinner ==
    Has(out, "bye") =>
       /\ pc = "exited"
       /\ ~active
       /\ out[Len(out)].ev = "bye"

\* the part of C15 that holds: an interrupt prints the shutdown message once
\* and ends the loop
C15_InterruptEndsLoop ==
    Has(out, "bye") => pc = "exited" /\ Count(out, "bye") = 1

====
